---- MODULE Spec2Model ----
(***************************************************************************)
(* Model of the review proxy endpoint (app/routes/api.proxy.reviews.ts):   *)
(* the tenant resolver, the body reader, the two handlers (loader, action) *)
(* and the Review table they read and write.                               *)
(*                                                                         *)
(* Text is a sequence of one-character strings, so that trimming, sign and *)
(* digit recognition, case folding and suffix matching are computed.  A    *)
(* value that may be null (headers.get, searchParams.get) is a sequence of *)
(* length 0 (null) or 1 (the value).                                       *)
(* Input alphabet: the requests use decimal digits, letters, ".", "+",     *)
(* "-" and the space; radix prefixes (0x, 0o, 0b), exponents and           *)
(* "Infinity" do not occur in the inputs.                                  *)
(***************************************************************************)
EXTENDS Integers, Sequences, FiniteSets

VARIABLES scenario, store, submittedAs, request, response, dbCalls, pc

vars == <<scenario, store, submittedAs, request, response, dbCalls, pc>>

(***************************************************************************)
(* Bounds                                                                  *)
(***************************************************************************)
MaxReviews == 2
MaxBulk == 56

(***************************************************************************)
(* Program constants                                                       *)
(***************************************************************************)
Take == 50

ReviewStatus == {"pending", "approved", "rejected"}

\* Names every JavaScript object inherits; ReviewStatus[name] finds them.
ObjectPrototypeKeys == {"constructor", "toString", "valueOf", "hasOwnProperty"}

(***************************************************************************)
(* Text helpers                                                            *)
(***************************************************************************)
Digits == <<"0", "1", "2", "3", "4", "5", "6", "7", "8", "9">>

UpperCase == <<"A", "B", "C", "D", "E", "F", "G", "H", "I", "J", "K", "L", "M",
               "N", "O", "P", "Q", "R", "S", "T", "U", "V", "W", "X", "Y", "Z">>

LowerCase == <<"a", "b", "c", "d", "e", "f", "g", "h", "i", "j", "k", "l", "m",
               "n", "o", "p", "q", "r", "s", "t", "u", "v", "w", "x", "y", "z">>

IsDigit(c) == \E i \in 1..10 : Digits[i] = c

DigitVal(c) == (CHOOSE i \in 1..10 : Digits[i] = c) - 1

IsSpace(c) == c = " "

Lower(c) ==
  IF \E i \in 1..26 : UpperCase[i] = c
  THEN LowerCase[CHOOSE i \in 1..26 : UpperCase[i] = c]
  ELSE c

RECURSIVE TrimLeft(_)
TrimLeft(s) ==
  IF s # <<>> /\ IsSpace(s[1]) THEN TrimLeft(Tail(s)) ELSE s

RECURSIVE TrimRight(_)
TrimRight(s) ==
  IF s # <<>> /\ IsSpace(s[Len(s)]) THEN TrimRight(SubSeq(s, 1, Len(s) - 1)) ELSE s

Trim(s) == TrimRight(TrimLeft(s))

RECURSIVE StripZeros(_)
StripZeros(d) ==
  IF Len(d) > 1 /\ d[1] = "0" THEN StripZeros(Tail(d)) ELSE d

AllDigits(s) == \A i \in 1..Len(s) : IsDigit(s[i])

RECURSIVE Pow10(_)
Pow10(k) == IF k = 0 THEN 1 ELSE 10 * Pow10(k - 1)

RECURSIVE DigitsToInt(_)
DigitsToInt(d) ==
  IF d = <<>> THEN 0 ELSE 10 * DigitsToInt(SubSeq(d, 1, Len(d) - 1)) + DigitVal(d[Len(d)])

RECURSIVE IntToDigits(_)
IntToDigits(n) ==
  IF n < 10 THEN <<Digits[n + 1]>> ELSE Append(IntToDigits(n \div 10), Digits[(n % 10) + 1])

\* d1 <= d2 for two digit sequences of the same length
RECURSIVE LexLeq(_, _)
LexLeq(d1, d2) ==
  IF d1 = <<>> THEN TRUE
  ELSE IF DigitVal(d1[1]) < DigitVal(d2[1]) THEN TRUE
  ELSE IF DigitVal(d1[1]) > DigitVal(d2[1]) THEN FALSE
  ELSE LexLeq(Tail(d1), Tail(d2))

(***************************************************************************)
(* JavaScript values carried by a request body                             *)
(***************************************************************************)
Undefined == [t |-> "undefined", s |-> <<>>, m |-> 0, k |-> 0]
JNull == [t |-> "null", s |-> <<>>, m |-> 0, k |-> 0]
JStr(s) == [t |-> "string", s |-> s, m |-> 0, k |-> 0]
\* the number m / 10^k
JNum(m, k) == [t |-> "number", s |-> <<>>, m |-> m, k |-> k]
JBool(b) == [t |-> "boolean", s |-> <<>>, m |-> IF b THEN 1 ELSE 0, k |-> 0]

\* !v
Falsy(v) ==
  \/ v.t \in {"undefined", "null"}
  \/ v.t = "string" /\ v.s = <<>>
  \/ v.t = "number" /\ v.m = 0
  \/ v.t = "boolean" /\ v.m = 0

\* a ?? b
Nullish(v) == v.t \in {"undefined", "null"}

Coalesce(a, b) == IF Nullish(a) THEN b ELSE a

\* String(v)
JsString(v) ==
  CASE v.t = "string" -> v.s
    [] v.t = "undefined" -> <<"u", "n", "d", "e", "f", "i", "n", "e", "d">>
    [] v.t = "null" -> <<"n", "u", "l", "l">>
    [] v.t = "boolean" -> IF v.m = 1 THEN <<"t", "r", "u", "e">>
                                     ELSE <<"f", "a", "l", "s", "e">>
    [] v.t = "number" ->
         LET a == IF v.m < 0 THEN 0 - v.m ELSE v.m
             sign == IF v.m < 0 THEN <<"-">> ELSE <<>>
             ip == IntToDigits(a \div Pow10(v.k))
             fr == a % Pow10(v.k)
             fd == IntToDigits(fr)
             pad == [i \in 1..(v.k - Len(fd)) |-> "0"]
         IN IF fr = 0 THEN sign \o ip ELSE sign \o ip \o <<".">> \o pad \o fd

(***************************************************************************)
(* BigInt(text) and bigint.toString()                                      *)
(***************************************************************************)
BigZero == [neg |-> FALSE, d |-> <<"0">>]

\* (variant: the text read as a double, which keeps 15 significant digits)
StringToBigIntLossy(s) ==
  LET t == Trim(s)
      signed == t # <<>> /\ t[1] \in {"+", "-"}
      digs == IF signed THEN Tail(t) ELSE t
      mag == StripZeros(digs)
      kept == [i \in 1..Len(mag) |-> IF i <= 15 THEN mag[i] ELSE "0"]
  IN IF t = <<>> THEN [ok |-> TRUE, v |-> BigZero]
     ELSE IF digs = <<>> \/ ~AllDigits(digs) THEN [ok |-> FALSE, v |-> BigZero]
     ELSE [ok |-> TRUE,
           v |-> [neg |-> t[1] = "-" /\ kept # <<"0">>, d |-> kept]]

\* StringToBigInt: surrounding white space is dropped, the empty text is 0n,
\* an optional sign and decimal digits otherwise; anything else is a
\* SyntaxError (ok = FALSE).
StringToBigInt(s) ==
  LET t == Trim(s)
      signed == t # <<>> /\ t[1] \in {"+", "-"}
      digs == IF signed THEN Tail(t) ELSE t
      mag == StripZeros(digs)
  IN IF t = <<>> THEN [ok |-> TRUE, v |-> BigZero]
     ELSE IF digs = <<>> \/ ~AllDigits(digs) THEN [ok |-> FALSE, v |-> BigZero]
     ELSE [ok |-> TRUE,
           v |-> [neg |-> t[1] = "-" /\ mag # <<"0">>, d |-> mag]]

BigIntToString(b) == IF b.neg THEN <<"-">> \o b.d ELSE b.d

MaxInt64 == <<"9", "2", "2", "3", "3", "7", "2", "0", "3", "6",
              "8", "5", "4", "7", "7", "5", "8", "0", "7">>

MinInt64Magnitude == <<"9", "2", "2", "3", "3", "7", "2", "0", "3", "6",
                       "8", "5", "4", "7", "7", "5", "8", "0", "8">>

\* A BIGINT column holds -2^63 .. 2^63 - 1
FitsInt64(b) ==
  \/ Len(b.d) < 19
  \/ Len(b.d) = 19 /\ LexLeq(b.d, IF b.neg THEN MinInt64Magnitude ELSE MaxInt64)

(***************************************************************************)
(* Number(v): the number m / 10^k, or NaN                                  *)
(***************************************************************************)
NaN == [nan |-> TRUE, m |-> 0, k |-> 0]
Num(m, k) == [nan |-> FALSE, m |-> m, k |-> k]

IndexOfDot(s) == IF \E i \in 1..Len(s) : s[i] = "."
                 THEN CHOOSE i \in 1..Len(s) : s[i] = "." /\ \A j \in 1..(i - 1) : s[j] # "."
                 ELSE 0

StringToNumber(s) ==
  LET t == Trim(s)
      signed == t # <<>> /\ t[1] \in {"+", "-"}
      u == IF signed THEN Tail(t) ELSE t
      dot == IndexOfDot(u)
      ip == IF dot = 0 THEN u ELSE SubSeq(u, 1, dot - 1)
      fp == IF dot = 0 THEN <<>> ELSE SubSeq(u, dot + 1, Len(u))
      mag == DigitsToInt(ip \o fp)
  IN IF t = <<>> THEN Num(0, 0)
     ELSE IF ~AllDigits(ip) \/ ~AllDigits(fp) \/ (ip = <<>> /\ fp = <<>>) THEN NaN
     ELSE Num(IF signed /\ t[1] = "-" THEN 0 - mag ELSE mag, Len(fp))

ToNumber(v) ==
  CASE v.t = "undefined" -> NaN
    [] v.t = "null" -> Num(0, 0)
    [] v.t = "boolean" -> Num(v.m, 0)
    [] v.t = "number" -> Num(v.m, v.k)
    [] v.t = "string" -> StringToNumber(v.s)

\* Number.isFinite(n): the inputs carry no Infinity
IsFinite(n) == ~n.nan

LessThan(n, c) == ~n.nan /\ n.m < c * Pow10(n.k)
GreaterThan(n, c) == ~n.nan /\ n.m > c * Pow10(n.k)

\* An INTEGER column takes whole numbers only
IsWhole(n) == ~n.nan /\ n.m % Pow10(n.k) = 0
WholeValue(n) == n.m \div Pow10(n.k)

(***************************************************************************)
(* Requests                                                                *)
(*   hdr, shopQ, xfh, host : x-shopify-shop-domain, ?shop=,                *)
(*     x-forwarded-host, host (null or text); urlHost : new URL(url).host  *)
(*   qProduct_id, qProductId, qStatus : query parameters (null or text;    *)
(*     the status names are kept as atomic strings)                        *)
(*   ct : what the content-type header declares ("json", "form", "other")  *)
(*   format : what the payload really is ("json", "form", "garbage")       *)
(*   fields : the fields the payload carries when it is well formed        *)
(***************************************************************************)
MyShopifySuffix == <<".", "m", "y", "s", "h", "o", "p", "i", "f", "y", ".", "c", "o", "m">>

ShopA == <<"a">> \o MyShopifySuffix
ShopB == <<"b">> \o MyShopifySuffix
ShopBUpper == <<"B", ".", "M", "Y", "S", "H", "O", "P", "I", "F", "Y", ".", "C", "O", "M">>
NearMiss == <<"x", "m", "y", "s", "h", "o", "p", "i", "f", "y", ".", "c", "o", "m">>
Evil == <<"e", "v", "i", "l", ".", "c", "o", "m">>
AppHost == <<"a", "p", "p", ".", "i", "o">>

EmptyFields ==
  [productId |-> Undefined, product_id |-> Undefined, rating |-> Undefined,
   body |-> Undefined, review |-> Undefined, author_name |-> Undefined,
   status |-> Undefined]

NoRequest ==
  [method |-> "GET", hdr |-> <<>>, shopQ |-> <<>>, xfh |-> <<>>, host |-> <<>>,
   urlHost |-> AppHost, qProduct_id |-> <<>>, qProductId |-> <<>>, qStatus |-> <<>>,
   ct |-> "other", format |-> "garbage", fields |-> EmptyFields]

(***************************************************************************)
(* getShopFromRequest                                                      *)
(***************************************************************************)
\* a header or parameter that is neither null nor ""
Present(o) == o # <<>> /\ o[1] # <<>>

\* (variant: the pattern without its leading dot, /myshopify\.com$/i)
MatchesMyShopifyNoDot(h) ==
  LET n == Len(MyShopifySuffix) - 1 IN
  /\ Len(h) >= n
  /\ \A i \in 1..n : Lower(h[Len(h) - n + i]) = MyShopifySuffix[i + 1]

\* /\.myshopify\.com$/i.test(host)
MatchesMyShopify(h) ==
  LET n == Len(MyShopifySuffix) IN
  /\ Len(h) >= n
  /\ \A i \in 1..n : Lower(h[Len(h) - n + i]) = MyShopifySuffix[i]

\* (variant: the host header consulted before x-forwarded-host)
getShopHostHeaderFirst(req) ==
  IF Present(req.hdr) THEN req.hdr
  ELSE IF Present(req.shopQ) THEN req.shopQ
  ELSE LET host == IF Present(req.host) THEN req.host[1]
                   ELSE IF Present(req.xfh) THEN req.xfh[1]
                   ELSE req.urlHost
       IN IF host # <<>> /\ MatchesMyShopify(host) THEN <<host>> ELSE <<>>

\* The result is null (<<>>) or the shop (<<shop>>).
getShopFromRequest(req) ==
  IF Present(req.hdr) THEN req.hdr
  ELSE IF Present(req.shopQ) THEN req.shopQ
  ELSE LET host == IF Present(req.xfh) THEN req.xfh[1]
                   ELSE IF Present(req.host) THEN req.host[1]
                   ELSE req.urlHost
       IN IF host # <<>> /\ MatchesMyShopify(host) THEN <<host>> ELSE <<>>

(***************************************************************************)
(* readBody: the fields, or threw = TRUE when the promise rejects          *)
(***************************************************************************)
readBody(req) ==
  IF req.ct = "json"
  THEN IF req.format = "json" THEN [threw |-> FALSE, fields |-> req.fields]
       ELSE [threw |-> TRUE, fields |-> EmptyFields]
  ELSE IF req.ct = "form"
  THEN IF req.format = "form" THEN [threw |-> FALSE, fields |-> req.fields]
       ELSE [threw |-> FALSE, fields |-> EmptyFields]
  ELSE IF req.format = "json" THEN [threw |-> FALSE, fields |-> req.fields]
       ELSE [threw |-> FALSE, fields |-> EmptyFields]

(***************************************************************************)
(* safeJson: the response on the wire; a bigint is rendered as its decimal *)
(* text.                                                                   *)
(***************************************************************************)
Encode(r) == [r EXCEPT !.productId = BigIntToString(r.productId)]

EncodeAll(rs) == [i \in 1..Len(rs) |-> Encode(rs[i])]

NoResponse == [status |-> 0, ok |-> FALSE, error |-> "", review |-> <<>>, reviews |-> <<>>]

safeJsonError(status, error) ==
  [status |-> status, ok |-> FALSE, error |-> error, review |-> <<>>, reviews |-> <<>>]

safeJsonReviews(reviews) ==
  [status |-> 200, ok |-> TRUE, error |-> "", review |-> <<>>, reviews |-> EncodeAll(reviews)]

safeJsonReview(created) ==
  [status |-> 200, ok |-> TRUE, error |-> "", review |-> <<Encode(created)>>, reviews |-> <<>>]

(***************************************************************************)
(* The Review table and the two queries                                    *)
(*   a row: id, shopDomain, productId (bigint), rating, body, authorName,  *)
(*   status, createdAt.  The optional columns title, productHandle and     *)
(*   authorEmail are copied through by the handler and are not modelled.   *)
(*   Rows are kept in insertion order; id is the row's position.           *)
(***************************************************************************)
\* ReviewStatus[name]
EnumLookup(name) ==
  IF name \in ReviewStatus THEN [kind |-> "value", v |-> name]
  ELSE IF name \in ObjectPrototypeKeys THEN [kind |-> "inherited", v |-> name]
  ELSE [kind |-> "undefined", v |-> name]

\* orderBy createdAt desc; rows with equal createdAt come in either id order
Before(a, b, tie) ==
  \/ a.createdAt > b.createdAt
  \/ a.createdAt = b.createdAt /\ (IF tie = "asc" THEN a.id < b.id ELSE a.id > b.id)

\* the rows in the order Before: a row's place is one more than the number
\* of rows that come before it
OrderBy(rows, tie) ==
  LET n == Len(rows)
      place == SubSeq([i \in 1..n |->
                  1 + Cardinality({j \in 1..n : Before(rows[j], rows[i], tie)})], 1, n)
  IN [k \in 1..n |-> rows[CHOOSE i \in 1..n : place[i] = k]]

\* (variant: the where clause without shopDomain)
WhereAnyShop(st, shop, pid, status) ==
  LET Matches(r) == r.productId = pid /\ r.status = status
  IN SelectSeq(st, Matches)

Where(st, shop, pid, status) ==
  LET Matches(r) == r.shopDomain = shop /\ r.productId = pid /\ r.status = status
  IN SelectSeq(st, Matches)

\* (variant: take without orderBy)
findManyUnordered(st, shop, pid, status, tie) ==
  LET rows == Where(st, shop, pid, status)
  IN SubSeq(rows, 1, IF Len(rows) < Take THEN Len(rows) ELSE Take)

findMany(st, shop, pid, status, tie) ==
  LET sorted == OrderBy(Where(st, shop, pid, status), tie)
  IN SubSeq(sorted, 1, IF Len(sorted) < Take THEN Len(sorted) ELSE Take)

\* createdAt DEFAULT CURRENT_TIMESTAMP: not before any earlier row
Now(st) == IF st = <<>> THEN 0 ELSE st[Len(st)].createdAt

create(st, shop, pid, rating, text, authorName, status, dt) ==
  [id |-> Len(st) + 1, shopDomain |-> shop, productId |-> pid,
   rating |-> WholeValue(rating), body |-> text, authorName |-> authorName,
   status |-> status, createdAt |-> Now(st) + dt]

(***************************************************************************)
(* loader: GET .../reviews?product_id=...&status=...                       *)
(***************************************************************************)
MissingShopOnGet ==
  "Missing shop. Ensure you call via the App Proxy (/apps/<subpath>) or add ?shop=<domain>."

MissingShopOnPost ==
  "Missing shop. Ensure you post to the App Proxy (/apps/<subpath>) or add ?shop=<domain>."

\* url.searchParams.get("product_id") ?? url.searchParams.get("productId") ?? ""
QueryProductId(req) ==
  IF req.qProduct_id # <<>> THEN req.qProduct_id[1]
  ELSE IF req.qProductId # <<>> THEN req.qProductId[1]
  ELSE <<>>

\* url.searchParams.get("status") ?? "approved"
StatusParam(req) == IF req.qStatus # <<>> THEN req.qStatus[1] ELSE "approved"

\* ReviewStatus[statusParam] ?? ReviewStatus.approved
StatusFilter(statusParam) ==
  LET looked == EnumLookup(statusParam)
  IN IF looked.kind = "undefined" THEN [kind |-> "value", v |-> "approved"] ELSE looked

loaderResult(req, st, tie) ==
  LET shop == getShopFromRequest(req)
      productIdRaw == QueryProductId(req)
      parsed == StringToBigInt(productIdRaw)
      filter == StatusFilter(StatusParam(req))
  IN IF shop = <<>>
     THEN [response |-> safeJsonError(401, MissingShopOnGet), calls |-> <<>>]
     ELSE IF productIdRaw = <<>>
     THEN [response |-> safeJsonError(400, "Missing product_id"), calls |-> <<>>]
     ELSE IF ~parsed.ok
     THEN [response |-> safeJsonError(400, "Invalid product_id"), calls |-> <<>>]
     ELSE IF filter.kind # "value" \/ ~FitsInt64(parsed.v)
     \* the query is rejected by the store client; the handler's catch answers
     THEN [response |-> safeJsonError(500, "Failed to load reviews"),
           calls |-> <<"findMany">>]
     ELSE [response |-> safeJsonReviews(findMany(st, shop[1], parsed.v, filter.v, tie)),
           calls |-> <<"findMany">>]

loader ==
  /\ pc = "loader"
  /\ \E tie \in {"asc", "desc"} :
       LET res == loaderResult(request, store, tie)
       IN /\ response' = res.response
          /\ dbCalls' = res.calls
  /\ pc' = "done"
  /\ UNCHANGED <<scenario, store, submittedAs, request>>

(***************************************************************************)
(* action: POST .../reviews                                                *)
(***************************************************************************)
\* body.body !== undefined ? String(body.body)
\*   : body.review !== undefined ? String(body.review) : ""
ReviewText(body) ==
  IF body.body.t # "undefined" THEN JsString(body.body)
  ELSE IF body.review.t # "undefined" THEN JsString(body.review)
  ELSE <<>>

\* body.author_name ? String(body.author_name) : ""
AuthorName(body) ==
  IF ~Falsy(body.author_name) THEN JsString(body.author_name) ELSE <<>>

\* (variant: the range test without its lower bound)
RatingRejectedNoLower(rating) ==
  ~IsFinite(rating) \/ GreaterThan(rating, 5)

\* !Number.isFinite(rating) || rating < 1 || rating > 5
RatingRejected(rating) ==
  ~IsFinite(rating) \/ LessThan(rating, 1) \/ GreaterThan(rating, 5)

\* (variant: the status of the body, when it carries one)
CreatedStatusFromBody(body) ==
  IF body.status.t = "string" /\ body.status.s # <<>> THEN "approved" ELSE "pending"

\* status: ReviewStatus.pending
CreatedStatus(body) == "pending"

NoChange == [response |-> NoResponse, calls |-> <<>>, created |-> <<>>, raw |-> <<>>]

actionResult(req, st, dt) ==
  LET shop == getShopFromRequest(req)
      read == readBody(req)
      body == read.fields
      productIdRaw == Coalesce(body.productId, body.product_id)
      text == ReviewText(body)
      authorName == AuthorName(body)
      parsed == StringToBigInt(JsString(productIdRaw))
      rating == ToNumber(body.rating)
      row == create(st, shop[1], parsed.v, rating, text, authorName,
                    CreatedStatus(body), dt)
  IN IF req.method # "POST"
     THEN [NoChange EXCEPT !.response = safeJsonError(405, "Method not allowed")]
     ELSE IF shop = <<>>
     THEN [NoChange EXCEPT !.response = safeJsonError(401, MissingShopOnPost)]
     ELSE IF read.threw
     THEN [NoChange EXCEPT !.response = safeJsonError(500, "Failed to submit review")]
     ELSE IF Falsy(productIdRaw)
     THEN [NoChange EXCEPT !.response = safeJsonError(400, "product_id is required")]
     ELSE IF ~parsed.ok
     THEN [NoChange EXCEPT !.response = safeJsonError(400, "Invalid product_id")]
     ELSE IF RatingRejected(rating)
     THEN [NoChange EXCEPT !.response = safeJsonError(400, "rating must be between 1 and 5")]
     ELSE IF authorName = <<>> \/ text = <<>>
     THEN [NoChange EXCEPT !.response = safeJsonError(400, "author_name and body are required")]
     ELSE IF ~FitsInt64(parsed.v) \/ ~IsWhole(rating)
     \* the insert is rejected (BIGINT, INTEGER columns); the catch answers
     THEN [NoChange EXCEPT !.response = safeJsonError(500, "Failed to submit review"),
                           !.calls = <<"create">>]
     ELSE [response |-> safeJsonReview(row), calls |-> <<"create">>,
           created |-> <<row>>, raw |-> <<JsString(productIdRaw)>>]

action ==
  /\ pc = "action"
  /\ \E dt \in {0, 1} :
       LET res == actionResult(request, store, dt)
       IN /\ response' = res.response
          /\ dbCalls' = res.calls
          /\ store' = store \o res.created
          /\ submittedAs' = submittedAs \o
               [i \in 1..Len(res.created) |-> [id |-> res.created[i].id, raw |-> res.raw[i]]]
  /\ pc' = "done"
  /\ UNCHANGED <<scenario, request>>

(***************************************************************************)
(* The requests of each scenario.  A scenario varies one part of the       *)
(* request over its cases and keeps the rest to a valid submission or      *)
(* listing, so that the cases of every part are covered exhaustively.      *)
(***************************************************************************)
P42 == <<"4", "2">>
P042 == <<"0", "4", "2">>
P7 == <<"7">>
\* 2^53 + 1, not representable as a double
PBig == <<"9", "0", "0", "7", "1", "9", "9", "2", "5", "4", "7", "4", "0", "9", "9", "3">>
\* 2^63, one above the largest BIGINT
POver == MinInt64Magnitude
Great == <<"G", "r", "e", "a", "t">>
Old == <<"O", "l", "d">>
Ana == <<"A", "n", "a">>
Abc == <<"a", "b", "c">>

ValidFields ==
  [EmptyFields EXCEPT !.product_id = JStr(P42), !.rating = JNum(5, 0),
                      !.body = JStr(Great), !.author_name = JStr(Ana)]

\* a listing of product 42 for shop a, pending reviews
ListReq ==
  [NoRequest EXCEPT !.hdr = <<ShopA>>, !.host = <<AppHost>>,
                    !.qProduct_id = <<P42>>, !.qStatus = <<"pending">>]

\* a valid JSON submission for product 42 by shop a
SubmitReq ==
  [ListReq EXCEPT !.method = "POST", !.qProduct_id = <<>>, !.qStatus = <<>>,
                  !.ct = "json", !.format = "json", !.fields = ValidFields]

TenantRequests ==
  { [r EXCEPT !.hdr = h, !.shopQ = q, !.xfh = x, !.host = o, !.urlHost = u] :
      r \in {ListReq, SubmitReq, [SubmitReq EXCEPT !.method = "PUT"]},
      h \in {<<>>, <<<<>>>>, <<ShopA>>},
      q \in {<<>>, <<ShopB>>},
      x \in {<<>>, <<Evil>>, <<ShopBUpper>>},
      o \in {<<>>, <<NearMiss>>, <<ShopA>>},
      u \in {AppHost, ShopB} }

ProductIdValues ==
  {Undefined, JStr(<<>>), JStr(P42), JStr(P042), JStr(<<" ">>), JStr(Abc),
   JStr(PBig), JStr(POver), JStr(<<"-", "7">>), JNum(0, 0), JNum(42, 0)}

ProductRequests ==
  { [SubmitReq EXCEPT !.fields.product_id = p, !.fields.productId = a,
                      !.fields.rating = g] :
      p \in ProductIdValues,
      a \in {Undefined, JStr(<<>>), JStr(P7)},
      g \in {JNum(5, 0), JNum(0, 0)} }
  \cup
  { [ListReq EXCEPT !.qProduct_id = p, !.qProductId = a] :
      p \in {<<>>, <<<<>>>>, <<P42>>, <<P042>>, <<<<" ">>>>, <<Abc>>, <<PBig>>, <<POver>>},
      a \in {<<>>, <<P7>>} }

RatingValues ==
  {Undefined, JNull, JBool(TRUE), JNum(5, 0), JNum(1, 0), JNum(0, 0), JNum(6, 0),
   JNum(7, 0), JNum(45, 1), JNum(9, 1), JNum(51, 1),
   JStr(<<"3">>), JStr(<<" ", "5", " ">>), JStr(Abc), JStr(<<>>)}

RatingRequests ==
  { [SubmitReq EXCEPT !.fields.rating = g, !.fields.author_name = n] :
      g \in RatingValues, n \in {JStr(Ana), Undefined} }
  \cup {ListReq}

\* x-www-form-urlencoded carries text only
FormFields == [ValidFields EXCEPT !.rating = JStr(<<"5">>)]

BodyRequests ==
  { [SubmitReq EXCEPT !.ct = c, !.format = f,
                      !.fields = [(IF f = "form" THEN FormFields ELSE ValidFields)
                                    EXCEPT !.body = b, !.review = w,
                                           !.author_name = n, !.status = s]] :
      c \in {"json", "form", "other"},
      f \in {"json", "form"},
      b \in {Undefined, JStr(<<>>), JStr(Great)},
      w \in {Undefined, JStr(Old)},
      n \in {Undefined, JStr(<<>>), JStr(Ana)},
      s \in {Undefined, JStr(<<"a", "p", "p", "r", "o", "v", "e", "d">>)} }
  \cup
  { [SubmitReq EXCEPT !.ct = c, !.format = "garbage", !.fields = EmptyFields] :
      c \in {"json", "form", "other"} }
  \cup {ListReq}

ListRequests ==
  { [ListReq EXCEPT !.hdr = h, !.qProduct_id = p, !.qStatus = s] :
      h \in {<<ShopA>>, <<ShopB>>},
      p \in {<<P42>>, <<P7>>},
      s \in {<<>>, <<"">>, <<"pending">>, <<"approved">>, <<"rejected">>,
             <<"bogus">>, <<"constructor">>} }
  \cup {SubmitReq}

Requests(sc) ==
  CASE sc = "tenant" -> TenantRequests
    [] sc = "product" -> ProductRequests
    [] sc = "rating" -> RatingRequests
    [] sc = "body" -> BodyRequests
    [] sc = "list" -> ListRequests

(***************************************************************************)
(* A Review table that earlier submissions and the external moderation     *)
(* left behind: n rows in creation order, three rows per timestamp, all    *)
(* approved reviews of product 42 of shop a except four rows.              *)
(***************************************************************************)
BulkRow(i) ==
  [id |-> i,
   shopDomain |-> IF i = 3 THEN ShopB ELSE ShopA,
   productId |-> [neg |-> FALSE, d |-> IF i = 10 THEN P7 ELSE P42],
   rating |-> (i % 5) + 1,
   body |-> Great,
   authorName |-> Ana,
   status |-> IF i = 5 THEN "pending" ELSE IF i = 8 THEN "rejected" ELSE "approved",
   createdAt |-> i \div 3]

BulkStore(n) == [i \in 1..n |-> BulkRow(i)]

(***************************************************************************)
(* Initial states and steps                                                *)
(***************************************************************************)
Idle ==
  /\ submittedAs = <<>>
  /\ request = NoRequest
  /\ response = NoResponse
  /\ dbCalls = <<>>
  /\ pc = "idle"

Init ==
  /\ scenario \in {"tenant", "product", "rating", "body"}
  /\ store = <<>>
  /\ Idle

InitList ==
  /\ scenario = "list"
  /\ store \in {BulkStore(n) : n \in (MaxBulk - 4)..MaxBulk}
  /\ Idle

\* A request arrives and is routed: GET to loader, any other method to action.
Receive ==
  /\ pc = "idle"
  /\ \E req \in Requests(scenario) :
       /\ req.method = "POST" => Len(submittedAs) < MaxReviews
       /\ request' = req
       /\ pc' = IF req.method = "GET" THEN "loader" ELSE "action"
  /\ UNCHANGED <<scenario, store, submittedAs, response, dbCalls>>

\* The response has left; nothing of the request stays in the process.
Reply ==
  /\ pc = "done"
  /\ request' = NoRequest
  /\ response' = NoResponse
  /\ dbCalls' = <<>>
  /\ pc' = "idle"
  /\ UNCHANGED <<scenario, store, submittedAs>>

Next == Receive \/ loader \/ action \/ Reply

Spec == Init /\ [][Next]_vars

SpecList == InitList /\ [][Next]_vars

(***************************************************************************)
(* Vocabulary of the properties, stated on the request and the response    *)
(***************************************************************************)
Submitted == pc = "done" /\ request.method = "POST"

Listed == pc = "done" /\ request.method = "GET"

\* the text ends with .myshopify.com, whatever the case of its letters
EndsWithShopDomain(h) ==
  \E k \in 0..Len(h) :
    [i \in 1..(Len(h) - k) |-> Lower(h[k + i])] = MyShopifySuffix

HostSourceMatches(o) == o # <<>> /\ EndsWithShopDomain(o[1])

\* the fields the handler works on
SeenFields == readBody(request).fields

SeenProductId == Coalesce(SeenFields.productId, SeenFields.product_id)

\* digits, or a minus sign and digits
DecimalText(s) ==
  /\ s # <<>>
  /\ \/ AllDigits(s)
     \/ s[1] = "-" /\ Len(s) > 1 /\ AllDigits(Tail(s))

Magnitude(s) == StripZeros(IF s[1] = "-" THEN Tail(s) ELSE s)

Int64Text(s) ==
  /\ DecimalText(s)
  /\ FitsInt64([neg |-> s[1] = "-" /\ Magnitude(s) # <<"0">>, d |-> Magnitude(s)])

\* no leading zero, no "-0"
CanonicalText(s) ==
  /\ DecimalText(s)
  /\ LET d == IF s[1] = "-" THEN Tail(s) ELSE s
     IN (d[1] = "0") => (Len(d) = 1 /\ s[1] # "-")

\* requested status when it names a status, approved otherwise
EffectiveStatus(req) ==
  IF req.qStatus # <<>> /\ req.qStatus[1] \in {"pending", "approved", "rejected"}
  THEN req.qStatus[1]
  ELSE "approved"

(***************************************************************************)
(* C1: every review the submit operation persists has status pending,      *)
(* whatever status the body carries: with no moderation step every review  *)
(* in the store is pending, and so is the review of a 200 response.        *)
(***************************************************************************)
C1_CreatedPending ==
  /\ \A i \in 1..Len(store) : store[i].status = "pending"
  /\ (Submitted /\ response.status = 200) =>
       /\ Len(response.review) = 1
       /\ response.review[1].status = "pending"
       /\ store[Len(store)].status = "pending"

C1_Witness ==
  /\ Submitted /\ response.status = 200
  /\ SeenFields.status.t = "string"
  /\ Len(store) >= 1

(***************************************************************************)
(* C2: tenant isolation.  Every review a list request returns, and the     *)
(* review a submit request creates, has the shopDomain resolved for that   *)
(* request; a step never changes or removes an existing review.            *)
(***************************************************************************)
C2_Reads ==
  pc = "done" =>
    /\ \A i \in 1..Len(response.reviews) :
         /\ response.reviews[i].shopDomain = getShopFromRequest(request)[1]
         /\ response.reviews[i] = Encode(store[response.reviews[i].id])
    /\ \A i \in 1..Len(response.review) :
         /\ response.review[i].shopDomain = getShopFromRequest(request)[1]
         /\ response.review[i] = Encode(store[Len(store)])

C2_Writes ==
  /\ Len(store') >= Len(store)
  /\ SubSeq(store', 1, Len(store)) = store
  /\ \A i \in (Len(store) + 1)..Len(store') :
       store'[i].shopDomain = getShopFromRequest(request)[1]

C2_TenantIsolation == [](C2_Reads) /\ [][C2_Writes]_vars

C2_Witness ==
  /\ Listed /\ Len(response.reviews) >= 1
  /\ \E i \in 1..Len(store) : store[i].shopDomain # getShopFromRequest(request)[1]

(***************************************************************************)
(* C3, as claimed: a request with no tenant header, no shop parameter and  *)
(* no forwarded-host or host header matching the shop domain pattern is    *)
(* answered 401 with ok = false and no store operation, whatever the       *)
(* method.                                                                 *)
(***************************************************************************)
NoTenantHeaderOrParam(req) ==
  /\ ~Present(req.hdr)
  /\ ~Present(req.shopQ)
  /\ ~HostSourceMatches(req.xfh)
  /\ ~HostSourceMatches(req.host)

C3_AsClaimed ==
  (pc = "done" /\ NoTenantHeaderOrParam(request)) =>
    /\ response.status = 401
    /\ ~response.ok
    /\ dbCalls = <<>>

(***************************************************************************)
(* C3, amended: when in addition the host of the request URL does not      *)
(* match the pattern, no store operation is performed and the response has *)
(* ok = false; its status is 401 for a GET or a POST, and 405 for any      *)
(* other method on the submit endpoint (the method is checked first).      *)
(***************************************************************************)
C3_Unresolved ==
  (pc = "done" /\ NoTenantHeaderOrParam(request)
               /\ ~EndsWithShopDomain(request.urlHost)) =>
    /\ response.status = (IF request.method \in {"GET", "POST"} THEN 401 ELSE 405)
    /\ ~response.ok
    /\ dbCalls = <<>>

C3_Witness ==
  /\ Submitted
  /\ NoTenantHeaderOrParam(request) /\ ~EndsWithShopDomain(request.urlHost)
  /\ request.host = <<NearMiss>> /\ request.xfh = <<Evil>>
  /\ response.status = 401
  /\ Len(store) >= 1

(***************************************************************************)
(* C4: a list request with a resolved tenant and a valid product id        *)
(* filters on the requested status when it is pending, approved or         *)
(* rejected and on approved for an absent or any other status name; an     *)
(* unrecognized name never gives an error response.                        *)
(***************************************************************************)
C4_StatusFallback ==
  (Listed /\ getShopFromRequest(request) # <<>>
          /\ Int64Text(QueryProductId(request))) =>
    /\ response.status = 200
    /\ \A i \in 1..Len(response.reviews) :
         response.reviews[i].status = EffectiveStatus(request)

(***************************************************************************)
(* C5: with a resolved tenant and a valid product id, a rating that does   *)
(* not convert to a number in [1,5] is rejected with 400 and nothing is    *)
(* created; a review is created only for a rating in [1,5], and every      *)
(* stored rating is an integer in 1..5.                                    *)
(***************************************************************************)
RatingInRange(n) == ~n.nan /\ n.m >= Pow10(n.k) /\ n.m <= 5 * Pow10(n.k)

C5_Rating ==
  /\ \A i \in 1..Len(store) : store[i].rating \in 1..5
  /\ (Submitted /\ getShopFromRequest(request) # <<>>
                /\ ~readBody(request).threw
                /\ ~Falsy(SeenProductId)
                /\ Int64Text(JsString(SeenProductId))) =>
       /\ ~RatingInRange(ToNumber(SeenFields.rating)) =>
            /\ response.status = 400
            /\ response.error = "rating must be between 1 and 5"
            /\ dbCalls = <<>>
       /\ response.status = 200 =>
            /\ RatingInRange(ToNumber(SeenFields.rating))
            /\ store[Len(store)].rating = response.review[1].rating

C5_Witness ==
  /\ Submitted
  /\ request.fields.rating = JNum(0, 0)
  /\ response.status = 400
  /\ response.error = "rating must be between 1 and 5"
  /\ \E i \in 1..Len(store) : store[i].rating = 1

(***************************************************************************)
(* C6: a submit request with a resolved tenant whose body fails to parse,  *)
(* under any declared content type, is handled as an empty field set and   *)
(* ends in the 400 missing-field error, never in a 500.                    *)
(***************************************************************************)
BodyFailsToParse(req) ==
  \/ req.format = "garbage"
  \/ req.ct # "form" /\ req.format = "form"

C6_MalformedBody ==
  (Submitted /\ getShopFromRequest(request) # <<>> /\ BodyFailsToParse(request)) =>
    /\ response.status = 400
    /\ response.error = "product_id is required"

(***************************************************************************)
(* C7, as claimed: the resolver returns the first source that yields a     *)
(* value, in the order tenant header, shop parameter, forwarded-host,      *)
(* host; a forwarded-host or host that does not match the pattern counts   *)
(* as absent, so that a matching host is used after a non-matching         *)
(* forwarded-host; no other source resolves a tenant.  The tenant a        *)
(* handler works for shows in its response: 401 when unresolved, the       *)
(* shopDomain of the reviews otherwise.                                    *)
(***************************************************************************)
FirstSource(req) ==
  IF Present(req.hdr) THEN req.hdr
  ELSE IF Present(req.shopQ) THEN req.shopQ
  ELSE IF HostSourceMatches(req.xfh) THEN req.xfh
  ELSE IF HostSourceMatches(req.host) THEN req.host
  ELSE <<>>

ServedFor(Tenant(_)) ==
  (pc = "done" /\ request.method \in {"GET", "POST"}) =>
    /\ (Tenant(request) = <<>>) = (response.status = 401)
    /\ \A i \in 1..Len(response.reviews) :
         response.reviews[i].shopDomain = Tenant(request)[1]
    /\ \A i \in 1..Len(response.review) :
         response.review[i].shopDomain = Tenant(request)[1]

C7_AsClaimed == ServedFor(FirstSource)

(***************************************************************************)
(* C7, amended: the order is tenant header, shop parameter, then ONE host  *)
(* value, the first non-empty of forwarded-host, host and the host of the  *)
(* request URL, which is accepted only if it matches *.myshopify.com       *)
(* case-insensitively; a non-empty forwarded-host that does not match is   *)
(* not skipped, the result is then unresolved.                             *)
(***************************************************************************)
FirstHost(req) ==
  IF Present(req.xfh) THEN req.xfh[1]
  ELSE IF Present(req.host) THEN req.host[1]
  ELSE req.urlHost

HeaderParamThenOneHost(req) ==
  IF Present(req.hdr) THEN req.hdr
  ELSE IF Present(req.shopQ) THEN req.shopQ
  ELSE IF EndsWithShopDomain(FirstHost(req)) THEN <<FirstHost(req)>>
  ELSE <<>>

C7_ResolutionOrder == ServedFor(HeaderParamThenOneHost)

C7_Witness ==
  /\ Submitted /\ response.status = 200
  /\ ~Present(request.hdr) /\ ~Present(request.shopQ)
  /\ request.xfh = <<ShopBUpper>> /\ request.host = <<ShopA>>
  /\ response.review[1].shopDomain = ShopBUpper

(***************************************************************************)
(* C8: a list request that succeeds returns at most 50 reviews, all        *)
(* matching (tenant, product id, effective status), newest first, and the  *)
(* most recent ones: no matching review left out is later than a returned  *)
(* one, and all are returned when at most 50 match.                        *)
(***************************************************************************)
MatchingIds ==
  {i \in 1..Len(store) :
     /\ store[i].shopDomain = getShopFromRequest(request)[1]
     /\ BigIntToString(store[i].productId) = Magnitude(QueryProductId(request))
     /\ store[i].status = EffectiveStatus(request)}

ReturnedIds == {response.reviews[i].id : i \in 1..Len(response.reviews)}

C8_ListResult ==
  (Listed /\ response.status = 200) =>
    /\ Len(response.reviews) <= 50
    /\ Cardinality(ReturnedIds) = Len(response.reviews)
    /\ ReturnedIds \subseteq MatchingIds
    /\ \A i \in 1..Len(response.reviews) :
         response.reviews[i] = Encode(store[response.reviews[i].id])
    /\ \A i \in 1..(Len(response.reviews) - 1) :
         response.reviews[i].createdAt >= response.reviews[i + 1].createdAt
    /\ \A j \in MatchingIds \ ReturnedIds : \A i \in ReturnedIds :
         store[j].createdAt <= store[i].createdAt
    /\ Cardinality(MatchingIds) <= 50 => ReturnedIds = MatchingIds

C8_Witness ==
  /\ Listed /\ response.status = 200
  /\ Len(response.reviews) = 50
  /\ Cardinality(MatchingIds) > 50

(***************************************************************************)
(* C9: product-identifier validation comes first on a submit with a        *)
(* resolved tenant: an identifier absent under both names (or empty) gets  *)
(* the 400 'required' message, one that is present but is not a 64-bit     *)
(* integer gets the 400 'invalid' message, no review is created in either  *)
(* case, and a stored productId is always a 64-bit integer.                *)
(***************************************************************************)
C9_ProductIdValidation ==
  /\ \A i \in 1..Len(store) : FitsInt64(store[i].productId)
  /\ (Submitted /\ getShopFromRequest(request) # <<>> /\ ~readBody(request).threw) =>
       /\ Falsy(SeenProductId) =>
            /\ response.status = 400
            /\ response.error = "product_id is required"
            /\ response.review = <<>>
       /\ (~Falsy(SeenProductId) /\ ~Int64Text(JsString(SeenProductId))) =>
            /\ response.status = 400
            /\ response.error = "Invalid product_id"
            /\ response.review = <<>>

(***************************************************************************)
(* C10, as claimed: for a product_id given as a decimal integer string in  *)
(* the 64-bit range, the submit response and every later listing of the    *)
(* review render productId as that same string.                            *)
(***************************************************************************)
RendersAsSubmitted(Shape(_)) ==
  /\ (Submitted /\ response.status = 200 /\ SeenProductId.t = "string"
                /\ Shape(SeenProductId.s) /\ Int64Text(SeenProductId.s)) =>
       response.review[1].productId = SeenProductId.s
  /\ (Listed /\ response.status = 200) =>
       \A i \in 1..Len(response.reviews) : \A j \in 1..Len(submittedAs) :
         (/\ submittedAs[j].id = response.reviews[i].id
          /\ Shape(submittedAs[j].raw) /\ Int64Text(submittedAs[j].raw)) =>
           response.reviews[i].productId = submittedAs[j].raw

C10_AsClaimed == RendersAsSubmitted(DecimalText)

(***************************************************************************)
(* C10, amended: the same, for a product_id in canonical decimal form (no  *)
(* leading zero, no "-0"), which includes values above 2^53.               *)
(***************************************************************************)
C10_RoundTrip == RendersAsSubmitted(CanonicalText)

C10_Witness ==
  /\ Listed /\ response.status = 200
  /\ request.qProduct_id = <<PBig>>
  /\ \E i \in 1..Len(response.reviews) : \E j \in 1..Len(submittedAs) :
       /\ submittedAs[j].id = response.reviews[i].id
       /\ submittedAs[j].raw = PBig
       /\ response.reviews[i].productId = PBig

====
